---------------------------- MODULE Spec2Model ----------------------------
(***************************************************************************)
(* Bangla voice assistant: the speech recognizer adapter                   *)
(* (src/local_stt.py, LocalBanglaSpeechSTT) and the speech synthesizer     *)
(* adapter (src/local_tts.py, ChunkedStream).                              *)
(*                                                                         *)
(* Spec     recognition calls made on one adapter instance by NCalls       *)
(*          callers at once.  The adapter holds no lock, so the steps of   *)
(*          the callers interleave freely: between the test of             *)
(*          _ensure_client and its assignment the constructor Client(...)  *)
(*          does blocking network I/O, during which another thread runs.   *)
(* SpecSeq  the calls of a single caller, one after the other.             *)
(* SpecTTS  one synthesis run of ChunkedStream._run.                       *)
(*                                                                         *)
(* The outcomes of the environment (the temporary directory, the session   *)
(* constructor, the endpoint, unlink, the synthesis engine) are chosen     *)
(* nondeterministically.  trace[c] records, in order, what call c did and  *)
(* what the environment answered:                                          *)
(*   tempfile_fail          NamedTemporaryFile raised                      *)
(*   tempfile, wav_ok       the file was created and the WAV written       *)
(*   tempfile, wav_fail     the file was created and the writer raised     *)
(*   client_ok, client_fail Client(...) returned a session, or raised      *)
(*   attempt                predict was issued                             *)
(*   ok, ok_empty, ok_none  predict returned a text, "", or None           *)
(*   fail                   predict raised                                 *)
(*   sleep                  asyncio.sleep(1) was awaited                   *)
(*   unlink, unlink_fail    os.unlink removed the file, or raised          *)
(***************************************************************************)
EXTENDS Integers, Sequences, FiniteSets, TLC

(***************************************************************************)
(* Bounds of the model.                                                    *)
(***************************************************************************)
\* Number of callers (threads or tasks) that use the adapter instance at once.
NCalls == 2
\* Number of recognition calls made on the adapter instance, all callers
\* together.
MaxCalls == 2
\* Largest configured max_retries explored (the default is 3).
MaxRetries == 3
\* Longest audio buffer (in frames) handed to a recognition call.
MaxFrames == 2
\* Longest chunk sequence the synthesis engine yields.
MaxChunks == 3

Calls == 1..NCalls

\* Python's None, where a string may stand.
NoneVal == "None"

\* self._client = None: no session (sessions are numbered from 1).
NoClient == 0

\* temp_file = None: no path (temporary paths are numbered from 1).
NoPath == 0

\* Python truthiness of an Optional[str]: None and "" are falsy.
Truthy(x) == x \notin {NoneVal, ""}

\* Python's `a or b` on Optional[str] values.
PyOr(a, b) == IF Truthy(a) THEN a ELSE b

(***************************************************************************)
(* Audio frames (rtc.AudioFrame): interleaved 16-bit PCM bytes.  ZeroCh is *)
(* a frame whose channel count is 0, which the combiner and the WAV writer *)
(* reject.                                                                 *)
(***************************************************************************)
FrameA ==
    [data |-> <<1, 2>>, sample_rate |-> 16000, num_channels |-> 1,
     samples_per_channel |-> 1]

ZeroCh ==
    [data |-> <<>>, sample_rate |-> 16000, num_channels |-> 0,
     samples_per_channel |-> 0]

FrameSet == {FrameA, ZeroCh}

\* Every audio buffer of at most MaxFrames frames.
Buffers == UNION {[1..n -> FrameSet] : n \in 0..MaxFrames}

\* The language argument of a recognition call (Optional[str]).
Languages == {NoneVal, "en"}

\* What the endpoint's predict returns when it does not raise.
EndpointResults == {"hello", "", NoneVal}

RECURSIVE JoinData(_)
\* b''.join(frame.data for frame in frames)
JoinData(frames) ==
    IF frames = <<>> THEN <<>>
    ELSE Head(frames).data \o JoinData(Tail(frames))

Ok(v) == [raised |-> FALSE, value |-> v]
Raised(e) == [raised |-> TRUE, value |-> e]

combine_audio_frames_NoSampleWidth(frames) ==
    IF frames = <<>> THEN Raised("ValueError")
    ELSE IF Len(frames) = 1 THEN Ok(frames[1])
    ELSE LET first_frame == frames[1]
             combined_data == JoinData(frames)
             bytes_per_sample == first_frame.num_channels
         IN  IF bytes_per_sample = 0 THEN Raised("ZeroDivisionError")
             ELSE Ok([data |-> combined_data,
                      sample_rate |-> first_frame.sample_rate,
                      num_channels |-> first_frame.num_channels,
                      samples_per_channel |->
                          Len(combined_data) \div bytes_per_sample])

\* LocalBanglaSpeechSTT._combine_audio_frames
combine_audio_frames(frames) ==
    IF frames = <<>> THEN Raised("ValueError")
    ELSE IF Len(frames) = 1 THEN Ok(frames[1])
    ELSE LET first_frame == frames[1]
             combined_data == JoinData(frames)
             bytes_per_sample == 2 * first_frame.num_channels
         IN  IF bytes_per_sample = 0 THEN Raised("ZeroDivisionError")
             ELSE Ok([data |-> combined_data,
                      sample_rate |-> first_frame.sample_rate,
                      num_channels |-> first_frame.num_channels,
                      samples_per_channel |->
                          Len(combined_data) \div bytes_per_sample])

\* The wave module's writer: setnchannels and setframerate reject values
\* below 1, and the header is what the three setters were given.
WavRejects(frame) == frame.num_channels < 1 \/ frame.sample_rate <= 0

WavContent(frame) ==
    [nchannels |-> frame.num_channels, sampwidth |-> 2,
     framerate |-> frame.sample_rate, frames |-> frame.data]

\* A file left by a writer that raised: created, no audio written.
PartialWav == [nchannels |-> 0, sampwidth |-> 0, framerate |-> 0, frames |-> <<>>]

(***************************************************************************)
(* State.                                                                  *)
(***************************************************************************)
VARIABLES
    cfg,        \* the adapter's configuration fields (self._api_url, ...)
    client,     \* self._client: NoneVal, or the identity of a session
    nSessions,  \* how many Client(...) constructions have succeeded
    files,      \* the temporary directory: path :> WAV content
    nextPath,   \* how many temporary names tempfile has handed out
    nCalls,     \* how many recognition calls have been entered
    pc,         \* per call: where the call is
    buffer,     \* per call: the buffer argument
    language,   \* per call: the language argument
    temp_path,  \* per call: temp_path of _audio_frame_to_wav_file
    temp_file,  \* per call: temp_file of _recognize_impl
    attempt,    \* per call: the loop variable of _send_audio_to_api
    file_input, \* per call: file_input of _send_audio_to_api (the path sent)
    trace,      \* per call: the side effects performed, in order
    api,        \* per call: how _send_audio_to_api ended
    result,     \* per call: how _recognize_impl ended
    tts_pc,     \* synthesis run: where the run is
    chunks,     \* synthesis run: what the engine yields
    idx,        \* synthesis run: chunks consumed so far
    audio_data, \* synthesis run: the BytesIO buffer
    events,     \* synthesis run: calls made on the output emitter
    engine_err, \* synthesis run: whether the engine has raised
    tts_out,    \* synthesis run: how _run ended
    cmb_pc,     \* combiner call: where the call is
    cmb_in,     \* combiner call: the frames argument
    cmb_out,    \* combiner call: how _combine_audio_frames ended
    nStream,    \* how many times stream() has been called
    stream_out  \* how the last stream() call ended

sttVars ==
    <<cfg, client, nSessions, files, nextPath, nCalls, pc, buffer,
      language, temp_path, temp_file, attempt, file_input, trace, api,
      result>>

ttsVars == <<tts_pc, chunks, idx, audio_data, events, engine_err, tts_out>>

cmbVars == <<cmb_pc, cmb_in, cmb_out>>

streamVars == <<nStream, stream_out>>

\* What neither a recognition call nor a synthesis run touches.
auxVars == <<cmbVars, streamVars>>

vars == <<sttVars, ttsVars, auxVars>>

\* LocalBanglaSpeechSTT.__init__: the defaults of the signature.
DefaultConfig(n) ==
    [api_url |-> "https://88a06ccbe8e9fdd60e.gradio.live",
     username |-> "deepthinkers", password |-> "bangla2025",
     language |-> "bn", timeout |-> 30, max_retries |-> n,
     apply_correction |-> TRUE]

\* No event: the call has not ended, or it ended by raising.
NoEvent == [type |-> "", language |-> "", text |-> "", confidence |-> "unset"]

\* _recognize_impl has not ended.
NotRun == [outcome |-> "none", event |-> NoEvent]

\* How _send_audio_to_api ended: not yet, returned a text, or raised.
ApiPending == [outcome |-> "none", value |-> ""]
ApiReturned(text) == [outcome |-> "returned", value |-> text]
ApiRaised == [outcome |-> "raised", value |-> ""]

\* stt.SpeechEvent(FINAL_TRANSCRIPT, [SpeechData(language, text, confidence)])
SpeechEvent(lang, text, conf) ==
    [type |-> "FINAL_TRANSCRIPT", language |-> lang, text |-> text,
     confidence |-> conf]

empty_event_DefaultLanguage(lang) == SpeechEvent(cfg.language, "", "unset")

\* LocalBanglaSpeechSTT._empty_event: confidence is not passed.
empty_event(lang) == SpeechEvent(PyOr(lang, cfg.language), "", "unset")

\* A return statement of _recognize_impl.
Return(ev) == [outcome |-> "returned", event |-> ev]

ExceptHandler_Reraise(lang) == [outcome |-> "raised", event |-> NoEvent]

\* _recognize_impl, `except Exception`: log and return the empty event.
ExceptHandler(lang) == Return(empty_event(lang))

\* _recognize_impl, the return after a transcription.
SuccessEvent(lang, text) == SpeechEvent(PyOr(lang, cfg.language), text, 1)

Log(c, e) == [trace EXCEPT ![c] = Append(@, e)]

STTInit ==
    /\ cfg \in {DefaultConfig(n) : n \in 0..MaxRetries}
    /\ client = NoClient
    /\ nSessions = 0
    /\ files = <<>>
    /\ nextPath = 0
    /\ nCalls = 0
    /\ pc = [c \in Calls |-> "idle"]
    /\ buffer = [c \in Calls |-> <<>>]
    /\ language = [c \in Calls |-> NoneVal]
    /\ temp_path = [c \in Calls |-> NoPath]
    /\ temp_file = [c \in Calls |-> NoPath]
    /\ attempt = [c \in Calls |-> 0]
    /\ file_input = [c \in Calls |-> NoPath]
    /\ trace = [c \in Calls |-> <<>>]
    /\ api = [c \in Calls |-> ApiPending]
    /\ result = [c \in Calls |-> NotRun]

TTSInit ==
    /\ tts_pc = "idle"
    /\ chunks = <<>>
    /\ idx = 0
    /\ audio_data = <<>>
    /\ events = <<>>
    /\ engine_err = FALSE
    /\ tts_out = "none"

\* No combiner call and no stream() call has been made.
AuxInit ==
    /\ cmb_pc = "idle"
    /\ cmb_in = <<>>
    /\ cmb_out = Raised("")
    /\ nStream = 0
    /\ stream_out = "none"

Init == STTInit /\ TTSInit /\ AuxInit

(***************************************************************************)
(* A recognition call, LocalBanglaSpeechSTT._recognize_impl.               *)
(***************************************************************************)

\* The call raises inside the try block: the handler's result, then finally.
Fail(c) ==
    /\ result' = [result EXCEPT ![c] = ExceptHandler(language[c])]
    /\ pc' = [pc EXCEPT ![c] = "finally"]

Recognize_FileBeforeCheck(c) ==
    /\ pc[c] \in {"idle", "done"}
    /\ nCalls < MaxCalls
    /\ nCalls' = nCalls + 1
    /\ \E b \in Buffers, l \in Languages :
        /\ buffer' = [buffer EXCEPT ![c] = b]
        /\ language' = [language EXCEPT ![c] = l]
        /\ IF b = <<>>
           THEN /\ result' = [result EXCEPT ![c] = Return(empty_event(l))]
                /\ pc' = [pc EXCEPT ![c] = "finally"]
                /\ nextPath' = nextPath + 1
                /\ files' = files @@ (nextPath + 1 :> PartialWav)
                /\ temp_path' = [temp_path EXCEPT ![c] = nextPath + 1]
                /\ temp_file' = [temp_file EXCEPT ![c] = nextPath + 1]
                /\ trace' = [trace EXCEPT ![c] = <<"tempfile">>]
           ELSE /\ IF combine_audio_frames(b).raised
                   THEN /\ result' = [result EXCEPT ![c] = ExceptHandler(l)]
                        /\ pc' = [pc EXCEPT ![c] = "finally"]
                   ELSE /\ result' = [result EXCEPT ![c] = NotRun]
                        /\ pc' = [pc EXCEPT ![c] = "wav"]
                /\ temp_path' = [temp_path EXCEPT ![c] = NoPath]
                /\ temp_file' = [temp_file EXCEPT ![c] = NoPath]
                /\ trace' = [trace EXCEPT ![c] = <<>>]
                /\ UNCHANGED <<nextPath, files>>
    /\ attempt' = [attempt EXCEPT ![c] = 0]
    /\ file_input' = [file_input EXCEPT ![c] = NoPath]
    /\ api' = [api EXCEPT ![c] = ApiPending]
    /\ UNCHANGED <<cfg, client, nSessions, ttsVars, auxVars>>

\* _recognize_impl is entered with a buffer and a language (a caller enters
\* its next call once its previous one has returned; the locals of a call
\* start afresh).  Lines 186-205: an empty buffer returns the empty event at
\* once; otherwise the frames are combined, and a combiner error is caught.
Recognize(c) ==
    /\ pc[c] \in {"idle", "done"}
    /\ nCalls < MaxCalls
    /\ nCalls' = nCalls + 1
    /\ \E b \in Buffers, l \in Languages :
        /\ buffer' = [buffer EXCEPT ![c] = b]
        /\ language' = [language EXCEPT ![c] = l]
        /\ IF b = <<>>
           THEN /\ result' = [result EXCEPT ![c] = Return(empty_event(l))]
                /\ pc' = [pc EXCEPT ![c] = "finally"]
           ELSE IF combine_audio_frames(b).raised
           THEN /\ result' = [result EXCEPT ![c] = ExceptHandler(l)]
                /\ pc' = [pc EXCEPT ![c] = "finally"]
           ELSE /\ result' = [result EXCEPT ![c] = NotRun]
                /\ pc' = [pc EXCEPT ![c] = "wav"]
    /\ temp_path' = [temp_path EXCEPT ![c] = NoPath]
    /\ temp_file' = [temp_file EXCEPT ![c] = NoPath]
    /\ attempt' = [attempt EXCEPT ![c] = 0]
    /\ file_input' = [file_input EXCEPT ![c] = NoPath]
    /\ trace' = [trace EXCEPT ![c] = <<>>]
    /\ api' = [api EXCEPT ![c] = ApiPending]
    /\ UNCHANGED <<cfg, client, nSessions, files, nextPath, ttsVars, auxVars>>

\* _audio_frame_to_wav_file and the assignment of its result to temp_file.
\* The temporary file is created first (delete=False); the WAV is then
\* written into it.  Creating or writing may fail with an I/O error, and the
\* writer rejects a frame with no channels; temp_path is returned, and
\* temp_file assigned, only when nothing was raised.
AudioFrameToWavFile(c) ==
    /\ pc[c] = "wav"
    /\ LET frame == combine_audio_frames(buffer[c]).value
           path == nextPath + 1
       IN  \/ \* NamedTemporaryFile raises: no file was created
              /\ trace' = Log(c, "tempfile_fail")
              /\ Fail(c)
              /\ UNCHANGED <<files, nextPath, temp_path, temp_file>>
           \/ \* the file is created; writing it raises or succeeds
              \E ioError \in BOOLEAN :
              /\ nextPath' = path
              /\ temp_path' = [temp_path EXCEPT ![c] = path]
              /\ IF WavRejects(frame) \/ ioError
                 THEN /\ files' = files @@ (path :> PartialWav)
                      /\ trace' = [trace EXCEPT
                                     ![c] = @ \o <<"tempfile", "wav_fail">>]
                      /\ Fail(c)
                      /\ UNCHANGED temp_file
                 ELSE /\ files' = files @@ (path :> WavContent(frame))
                      /\ trace' = [trace EXCEPT
                                     ![c] = @ \o <<"tempfile", "wav_ok">>]
                      /\ temp_file' = [temp_file EXCEPT ![c] = path]
                      /\ pc' = [pc EXCEPT ![c] = "ensure"]
                      /\ UNCHANGED result
    /\ UNCHANGED <<cfg, client, nSessions, nCalls, buffer, language, attempt,
                   api, file_input,
                   ttsVars, auxVars>>

EnsureClientCheck_NoCheck(c) ==
    /\ pc[c] = "ensure"
    /\ pc' = [pc EXCEPT ![c] = "create"]
    /\ UNCHANGED <<cfg, client, nSessions, files, nextPath, nCalls, buffer,
                   language, temp_path, temp_file, attempt, trace, api,
                   result, file_input,
                   ttsVars, auxVars>>

\* _ensure_client, the test `self._client is None` (entered from
\* _send_audio_to_api, which then initialises its loop).
EnsureClientCheck(c) ==
    /\ pc[c] = "ensure"
    /\ pc' = [pc EXCEPT ![c] = IF client = NoClient THEN "create" ELSE "loop"]
    /\ UNCHANGED <<cfg, client, nSessions, files, nextPath, nCalls, buffer, language,
                   temp_path, temp_file, attempt, trace, api, result,
                   file_input,
                   ttsVars, auxVars>>

EnsureClientCreate_InsideLoop(c) ==
    /\ pc[c] = "create"
    /\ \/ /\ trace' = Log(c, "client_fail")
          /\ pc' = [pc EXCEPT ![c] = "sleep"]
          /\ UNCHANGED <<client, nSessions, api, result>>
       \/ /\ nSessions' = nSessions + 1
          /\ client' = nSessions + 1
          /\ trace' = Log(c, "client_ok")
          /\ pc' = [pc EXCEPT ![c] = "loop"]
          /\ UNCHANGED <<api, result>>
    /\ UNCHANGED <<cfg, files, nextPath, nCalls, buffer, language, temp_path,
                   temp_file, attempt>>
    /\ UNCHANGED <<file_input,
                   ttsVars, auxVars>>

\* _ensure_client, `self._client = Client(...)`: the constructor connects
\* and authenticates, and either raises or yields a new session.
EnsureClientCreate(c) ==
    /\ pc[c] = "create"
    /\ \/ /\ trace' = Log(c, "client_fail")
          /\ api' = [api EXCEPT ![c] = ApiRaised]
          /\ Fail(c)
          /\ UNCHANGED <<client, nSessions>>
       \/ /\ nSessions' = nSessions + 1
          /\ client' = nSessions + 1
          /\ trace' = Log(c, "client_ok")
          /\ pc' = [pc EXCEPT ![c] = "loop"]
          /\ UNCHANGED <<api, result>>
    /\ UNCHANGED <<cfg, files, nextPath, nCalls, buffer, language, temp_path,
                   temp_file, attempt>>
    /\ UNCHANGED <<file_input,
                   ttsVars, auxVars>>

HasNextAttempt_OffByOne(a) == a <= cfg.max_retries

\* `for attempt in range(self._max_retries)`: is there another iteration?
HasNextAttempt(a) == a < cfg.max_retries

ShouldSleep_Always(a) == a < cfg.max_retries

\* `if attempt < self._max_retries - 1`: pause before the next iteration?
ShouldSleep(a) == a < cfg.max_retries - 1

\* How many times the call has invoked the endpoint so far.
Attempts(c) == Cardinality({i \in DOMAIN trace[c] : trace[c][i] = "attempt"})

\* How many times the call has paused so far.
Pauses(c) == Cardinality({i \in DOMAIN trace[c] : trace[c][i] = "sleep"})

\* One iteration begins: the file is wrapped and predict is issued on a
\* worker thread; the coroutine is suspended until it ends.
Send(c) ==
    /\ pc[c] = "loop"
    /\ HasNextAttempt(attempt[c])
    /\ file_input' = [file_input EXCEPT ![c] = temp_file[c]]
    /\ trace' = Log(c, "attempt")
    /\ pc' = [pc EXCEPT ![c] = "predict"]
    /\ UNCHANGED <<cfg, client, nSessions, files, nextPath, nCalls, buffer, language,
                   temp_path, temp_file, attempt, api, result, ttsVars, auxVars>>

\* `return result if result else ""`
ApiReturnValue(r) == IF Truthy(r) THEN r ELSE ""

\* What the trace records when predict returns r.
ReplyEvent(r) ==
    IF r = NoneVal THEN "ok_none" ELSE IF r = "" THEN "ok_empty" ELSE "ok"

PredictReturn_EmptyIsFailure(c) ==
    /\ pc[c] = "predict"
    /\ file_input[c] \in DOMAIN files
    /\ \E r \in EndpointResults :
        /\ trace' = Log(c, ReplyEvent(r))
        /\ IF Truthy(r)
           THEN /\ api' = [api EXCEPT ![c] = ApiReturned(r)]
                /\ result' = [result EXCEPT ![c] =
                                Return(SuccessEvent(language[c], r))]
                /\ pc' = [pc EXCEPT ![c] = "finally"]
                /\ UNCHANGED attempt
           ELSE /\ pc' = [pc EXCEPT ![c] = "loop"]
                /\ attempt' = [attempt EXCEPT ![c] = @ + 1]
                /\ UNCHANGED <<api, result>>
    /\ UNCHANGED <<cfg, client, nSessions, files, nextPath, nCalls, buffer,
                   language, temp_path, temp_file, file_input,
                   ttsVars, auxVars>>

\* predict returned r (lines 153-161), which takes the uploaded file to
\* exist: _send_audio_to_api returns, and
\* _recognize_impl returns the transcript event (lines 209-220).
PredictReturn(c) ==
    /\ pc[c] = "predict"
    /\ file_input[c] \in DOMAIN files
    /\ \E r \in EndpointResults :
        /\ trace' = Log(c, ReplyEvent(r))
        /\ api' = [api EXCEPT ![c] = ApiReturned(ApiReturnValue(r))]
        /\ result' = [result EXCEPT ![c] =
                        Return(SuccessEvent(language[c], ApiReturnValue(r)))]
    /\ pc' = [pc EXCEPT ![c] = "finally"]
    /\ UNCHANGED <<cfg, client, nSessions, files, nextPath, nCalls, buffer,
                   language, temp_path, temp_file, attempt, file_input,
                   ttsVars, auxVars>>

\* predict (or handle_file) raised: the except clause of the loop body.
PredictRaise(c) ==
    /\ pc[c] = "predict"
    /\ trace' = Log(c, "fail")
    /\ IF ShouldSleep(attempt[c])
       THEN /\ pc' = [pc EXCEPT ![c] = "sleep"]
            /\ UNCHANGED attempt
       ELSE /\ pc' = [pc EXCEPT ![c] = "loop"]
            /\ attempt' = [attempt EXCEPT ![c] = @ + 1]
    /\ UNCHANGED <<cfg, client, nSessions, files, nextPath, nCalls, buffer, language,
                   temp_path, temp_file, api, result, file_input,
                   ttsVars, auxVars>>

\* `await asyncio.sleep(1)`, then the next iteration.
Sleep(c) ==
    /\ pc[c] = "sleep"
    /\ trace' = Log(c, "sleep")
    /\ attempt' = [attempt EXCEPT ![c] = @ + 1]
    /\ pc' = [pc EXCEPT ![c] = "loop"]
    /\ UNCHANGED <<cfg, client, nSessions, files, nextPath, nCalls, buffer, language,
                   temp_path, temp_file, api, result, file_input,
                   ttsVars, auxVars>>

\* The loop is exhausted: `raise Exception(error_msg)`, which
\* _recognize_impl catches.
RaiseExhausted(c) ==
    /\ pc[c] = "loop"
    /\ ~HasNextAttempt(attempt[c])
    /\ api' = [api EXCEPT ![c] = ApiRaised]
    /\ Fail(c)
    /\ UNCHANGED <<cfg, client, nSessions, files, nextPath, nCalls, buffer, language,
                   temp_path, temp_file, attempt, trace, file_input,
                   ttsVars, auxVars>>

Finally_UnlinkLatest(c) ==
    /\ pc[c] = "finally"
    /\ IF temp_file[c] # NoPath /\ nextPath \in DOMAIN files
       THEN /\ files' = [p \in DOMAIN files \ {nextPath} |-> files[p]]
            /\ trace' = Log(c, "unlink")
       ELSE UNCHANGED <<files, trace>>
    /\ pc' = [pc EXCEPT ![c] = "done"]
    /\ UNCHANGED <<cfg, client, nSessions, nextPath, nCalls, buffer, language,
                   temp_path, temp_file, attempt, api, result, file_input,
                   ttsVars, auxVars>>

\* The finally clause: unlink temp_file when it is set and exists; an error
\* of unlink is swallowed.  Then the call has returned.
Finally(c) ==
    /\ pc[c] = "finally"
    /\ IF temp_file[c] # NoPath /\ temp_file[c] \in DOMAIN files
       THEN \/ /\ files' = [p \in DOMAIN files \ {temp_file[c]} |-> files[p]]
               /\ trace' = Log(c, "unlink")
            \/ /\ trace' = Log(c, "unlink_fail")
               /\ UNCHANGED files
       ELSE UNCHANGED <<files, trace>>
    /\ pc' = [pc EXCEPT ![c] = "done"]
    /\ UNCHANGED <<cfg, client, nSessions, nextPath, nCalls, buffer, language,
                   temp_path, temp_file, attempt, api, result, file_input,
                   ttsVars, auxVars>>

Step(c) ==
    \/ Recognize(c)
    \/ AudioFrameToWavFile(c)
    \/ EnsureClientCheck(c)
    \/ EnsureClientCreate(c)
    \/ Send(c)
    \/ PredictReturn(c)
    \/ PredictRaise(c)
    \/ Sleep(c)
    \/ RaiseExhausted(c)
    \/ Finally(c)

Next == \E c \in Calls : Step(c)

Spec == Init /\ [][Next]_vars

\* One caller: its calls follow one another.
NextSeq == Step(1)

SpecSeq == Init /\ [][NextSeq]_vars

(***************************************************************************)
(* LocalBanglaSpeechSTT.stream, requested while the caller's recognition    *)
(* calls go on (SpecStream).                                                *)
(***************************************************************************)

\* How many stream requests a behaviour holds.
MaxStreams == 2

StreamOutcome_ReturnsStream == "SpeechStream"

\* stream() raises NotImplementedError.
StreamOutcome == "NotImplementedError"

\* LocalBanglaSpeechSTT.stream: the whole coroutine, it has no await.
Stream ==
    /\ nStream < MaxStreams
    /\ nStream' = nStream + 1
    /\ stream_out' = StreamOutcome
    /\ UNCHANGED <<sttVars, ttsVars, cmbVars>>

NextStream ==
    \/ Step(1)
    \/ Stream

SpecStream == Init /\ [][NextStream]_vars

(***************************************************************************)
(* A synthesis run, ChunkedStream._run (src/local_tts.py).                 *)
(***************************************************************************)

\* What edge_tts.Communicate.stream() yields: audio chunks carry bytes in
\* "data"; the other chunks are metadata (their payload is kept in `data`
\* here so that taking it for audio would show).
AudioChunk(d) == [type |-> "audio", data |-> d]
MetaChunk == [type |-> "WordBoundary", data |-> <<120>>]

ChunkSet ==
    {AudioChunk(<<65, 65>>), AudioChunk(<<66, 66>>), AudioChunk(<<>>),
     MetaChunk}

\* Every chunk sequence of at most MaxChunks chunks.
ChunkSeqs == UNION {[1..n -> ChunkSet] : n \in 0..MaxChunks}

\* The sample rate and channel count _run declares to the emitter.
SampleRate == 24000
NumChannels == 1

\* output_emitter.initialize(request_id, sample_rate, num_channels, mime_type)
InitializeEvent ==
    [ev |-> "initialize", sample_rate |-> SampleRate,
     num_channels |-> NumChannels, mime_type |-> "audio/mp3", data |-> <<>>]

\* output_emitter.push(audio_bytes)
PushEvent(bytes) ==
    [ev |-> "push", sample_rate |-> 0, num_channels |-> 0, mime_type |-> "",
     data |-> bytes]

WriteChunk_NoTypeCheck(buf, chunk) == buf \o chunk.data

\* The body of `async for chunk`: audio chunks are written to the buffer.
WriteChunk(buf, chunk) ==
    IF chunk.type = "audio" THEN buf \o chunk.data ELSE buf

Emit_NoEmptyCheck(audio_bytes) == <<InitializeEvent, PushEvent(audio_bytes)>>

\* After the loop: nothing is emitted for an empty buffer; otherwise the
\* emitter is initialised and the whole buffer pushed.
Emit(audio_bytes) ==
    IF audio_bytes = <<>> THEN <<>>
    ELSE <<InitializeEvent, PushEvent(audio_bytes)>>

ExceptOutcome_Swallow == "returned"

\* `except Exception as e: logger.error(...); raise`
ExceptOutcome == "raised"

\* _run is entered; edge_tts.Communicate(...) is constructed, which may raise.
TTSRun ==
    /\ tts_pc = "idle"
    /\ \E cs \in ChunkSeqs : chunks' = cs
    /\ \/ /\ tts_pc' = "stream"
          /\ UNCHANGED <<engine_err, tts_out>>
       \/ /\ engine_err' = TRUE
          /\ tts_out' = ExceptOutcome
          /\ tts_pc' = "done"
    /\ UNCHANGED <<idx, audio_data, events, sttVars, auxVars>>

TTSChunk_PushEach ==
    /\ tts_pc = "stream"
    /\ idx < Len(chunks)
    /\ idx' = idx + 1
    /\ audio_data' = WriteChunk(audio_data, chunks[idx + 1])
    /\ events' =
        IF chunks[idx + 1].type = "audio" /\ chunks[idx + 1].data # <<>>
        THEN events \o (IF events = <<>> THEN <<InitializeEvent>> ELSE <<>>)
                    \o <<PushEvent(chunks[idx + 1].data)>>
        ELSE events
    /\ UNCHANGED <<tts_pc, chunks, engine_err, tts_out, sttVars, auxVars>>

\* The stream yields its next chunk.
TTSChunk ==
    /\ tts_pc = "stream"
    /\ idx < Len(chunks)
    /\ idx' = idx + 1
    /\ audio_data' = WriteChunk(audio_data, chunks[idx + 1])
    /\ UNCHANGED <<tts_pc, chunks, events, engine_err, tts_out, sttVars, auxVars>>

\* The stream raises instead of yielding or ending.
TTSStreamError ==
    /\ tts_pc = "stream"
    /\ engine_err' = TRUE
    /\ tts_out' = ExceptOutcome
    /\ tts_pc' = "done"
    /\ UNCHANGED <<chunks, idx, audio_data, events, sttVars, auxVars>>

\* The stream ends: the buffer is emitted (or not), and _run returns.
TTSFinish ==
    /\ tts_pc = "stream"
    /\ idx = Len(chunks)
    /\ events' = events \o Emit(audio_data)
    /\ tts_out' = "returned"
    /\ tts_pc' = "done"
    /\ UNCHANGED <<chunks, idx, audio_data, engine_err, sttVars, auxVars>>

NextTTS ==
    \/ TTSRun
    \/ TTSChunk
    \/ TTSStreamError
    \/ TTSFinish

SpecTTS == Init /\ [][NextTTS]_vars

(***************************************************************************)
(* A call of the combiner alone, LocalBanglaSpeechSTT._combine_audio_frames *)
(* (SpecCombine): the frames are drawn when the call is made.              *)
(***************************************************************************)

\* rtc.AudioFrame(data, sample_rate, num_channels, samples_per_channel) with
\* as many samples as the data holds.
Frame(d, rate, nch) ==
    [data |-> d, sample_rate |-> rate, num_channels |-> nch,
     samples_per_channel |-> Len(d) \div (2 * nch)]

\* Mono and stereo frames at two sample rates; the data of each is a whole
\* number of 16-bit samples per channel.
CombineFrames ==
    {Frame(d, rate, 1) :
        d \in {<<1, 2>>, <<3, 4, 5, 6>>}, rate \in {16000, 48000}}
    \cup {Frame(d, rate, 2) :
        d \in {<<7, 8, 9, 10>>, <<11, 12, 13, 14, 15, 16, 17, 18>>},
        rate \in {16000, 48000}}

\* Every frame list of at most MaxFrames frames.
CombineInputs == UNION {[1..n -> CombineFrames] : n \in 0..MaxFrames}

\* _combine_audio_frames is called with a list of frames.
CombineCall ==
    /\ cmb_pc = "idle"
    /\ \E fs \in CombineInputs : cmb_in' = fs
    /\ cmb_pc' = "called"
    /\ UNCHANGED <<cmb_out, streamVars, sttVars, ttsVars>>

\* _combine_audio_frames returns or raises.
CombineEnd ==
    /\ cmb_pc = "called"
    /\ cmb_out' = combine_audio_frames(cmb_in)
    /\ cmb_pc' = "done"
    /\ UNCHANGED <<cmb_in, streamVars, sttVars, ttsVars>>

NextCombine ==
    \/ CombineCall
    \/ CombineEnd

SpecCombine == Init /\ [][NextCombine]_vars

(***************************************************************************)
(* Properties.                                                             *)
(***************************************************************************)

\* How many times event e occurs in the trace of call c.
Count(c, e) == Cardinality({i \in DOMAIN trace[c] : trace[c][i] = e})

\* How many endpoint attempts of call c have failed.
Fails(c) == Count(c, "fail")

\* The call has returned to its caller.
Returned(c) == pc[c] = "done"

\* C1: with max_retries = N >= 1, _send_audio_to_api never makes more than N
\* endpoint attempts; when the endpoint fails K < N times and then succeeds,
\* it returns the endpoint's value after exactly K+1 attempts; when every
\* attempt fails, it raises after exactly N attempts.
C1_RetryAttempts ==
    \A c \in Calls :
        cfg.max_retries >= 1 =>
            /\ Attempts(c) <= cfg.max_retries
            /\ api[c].outcome = "returned" =>
                /\ Fails(c) < cfg.max_retries
                /\ Attempts(c) = Fails(c) + 1
                /\ Count(c, "ok") = 1 => api[c].value = "hello"
            /\ (api[c].outcome = "raised" /\ Count(c, "client_fail") = 0) =>
                /\ Attempts(c) = cfg.max_retries
                /\ Fails(c) = cfg.max_retries
            /\ (api[c].outcome = "none" /\ pc[c] \in {"finally", "done"}) =>
                Attempts(c) = 0

\* C1 witness: two failed attempts, then a success on the third of three.
C1_Witness ==
    /\ cfg.max_retries = 3
    /\ api[1].outcome = "returned"
    /\ api[1].value = "hello"
    /\ Fails(1) = 2
    /\ Attempts(1) = 3

\* Something failed inside the call: the combiner, the WAV file, the session
\* or the transcription client.
CallFailed(c) ==
    \/ (buffer[c] # <<>> /\ combine_audio_frames(buffer[c]).raised)
    \/ Count(c, "tempfile_fail") > 0
    \/ Count(c, "wav_fail") > 0
    \/ Count(c, "client_fail") > 0
    \/ api[c].outcome = "raised"

\* C2: a recognition call never raises to its caller: whatever failed inside
\* it, it returns a final-transcript event whose text is "".
C2_RecognizeNeverRaises ==
    \A c \in Calls :
        /\ result[c].outcome # "raised"
        /\ pc[c] \in {"finally", "done"} =>
            /\ result[c].outcome = "returned"
            /\ result[c].event.type = "FINAL_TRANSCRIPT"
            /\ CallFailed(c) => result[c].event.text = ""

\* C2 witness: the call has returned after the client exhausted three
\* attempts.
C2_Witness ==
    /\ Returned(1)
    /\ cfg.max_retries = 3
    /\ api[1].outcome = "raised"
    /\ Fails(1) = 3
    /\ result[1].event.text = ""

\* C3: once a recognition call has returned, the temporary WAV file it
\* created no longer exists.
C3_TempFileRemoved ==
    \A c \in Calls :
        (Returned(c) /\ temp_path[c] # NoPath) =>
            temp_path[c] \notin DOMAIN files

\* C4: the transcription session is created at most once, however the calls
\* that first need it interleave.
C4_SessionCreatedOnce == nSessions <= 1

RECURSIVE AudioPayload(_)
\* The data of the chunks typed "audio", concatenated in order.
AudioPayload(cs) ==
    IF cs = <<>> THEN <<>>
    ELSE (IF Head(cs).type = "audio" THEN Head(cs).data ELSE <<>>)
         \o AudioPayload(Tail(cs))

\* The run has ended and the engine raised nothing.
EngineCompleted == tts_pc = "done" /\ ~engine_err

\* C5: when the engine yields some audio bytes and raises nothing, the run
\* emits one initialize event (24000 Hz, 1 channel) and then one push event
\* whose payload is the audio chunks' data in engine order.
C5_OneInitOnePush ==
    (EngineCompleted /\ AudioPayload(chunks) # <<>>) =>
        /\ tts_out = "returned"
        /\ Len(events) = 2
        /\ events[1].ev = "initialize"
        /\ events[1].sample_rate = 24000
        /\ events[1].num_channels = 1
        /\ events[2].ev = "push"
        /\ events[2].data = AudioPayload(chunks)

\* C5 witness: the chunks audio AA, metadata, audio BB were pushed as AABB.
C5_Witness ==
    /\ EngineCompleted
    /\ chunks = <<AudioChunk(<<65, 65>>), MetaChunk, AudioChunk(<<66, 66>>)>>
    /\ Len(events) = 2
    /\ events[2].data = <<65, 65, 66, 66>>

\* C6: when the engine raises nothing and yields no audio bytes, the run
\* returns normally and pushes nothing.
C6_NoAudioNoPush ==
    (EngineCompleted /\ AudioPayload(chunks) = <<>>) =>
        /\ tts_out = "returned"
        /\ \A i \in DOMAIN events : events[i].ev # "push"

\* C6 witness: a run over metadata and an empty audio chunk has returned.
C6_Witness ==
    /\ EngineCompleted
    /\ chunks = <<MetaChunk, AudioChunk(<<>>)>>
    /\ tts_out = "returned"
    /\ events = <<>>

\* C7: an exception of the engine, at construction or in the stream, is
\* raised to the caller of the run; the run never returns normally after it.
C7_EngineErrorReraised ==
    engine_err => (tts_pc = "done" /\ tts_out = "raised")

\* C7 witness: the engine raised in mid-stream, after an audio chunk.
C7_Witness ==
    /\ engine_err
    /\ idx = 1
    /\ audio_data # <<>>
    /\ tts_out = "raised"

\* A call entered with zero frames is in progress or has returned.
ZeroFrames(c) == buffer[c] = <<>> /\ pc[c] \in {"finally", "done"}

\* C8: a call given zero frames returns an event with text "" and does not
\* raise; it creates no temporary file and no session and makes no attempt:
\* no step of it changes the files or the session handle.
C8_ZeroFramesNoEffect ==
    /\ [](\A c \in Calls : ZeroFrames(c) =>
            /\ result[c].outcome = "returned"
            /\ result[c].event.text = ""
            /\ trace[c] = <<>>
            /\ temp_path[c] = NoPath)
    /\ [][\A c \in Calls :
            (pc'[c] # pc[c] /\ buffer'[c] = <<>>) =>
                UNCHANGED <<files, nextPath, client, nSessions>>]_vars

\* C8 witness: a call with zero frames has returned while no file exists.
C8_Witness ==
    /\ Returned(1)
    /\ buffer[1] = <<>>
    /\ result[1].event.text = ""
    /\ files = <<>>

\* The endpoint has reported success to call c with an empty or null result.
EmptyReply(c) == Count(c, "ok_empty") + Count(c, "ok_none") > 0

\* C9: an attempt that returns an empty or null result ends the retry loop:
\* it is the last attempt, no pause follows, and the client returns "".
C9_EmptyResultIsSuccess ==
    \A c \in Calls :
        EmptyReply(c) =>
            /\ pc[c] \in {"finally", "done"}
            /\ api[c].outcome = "returned"
            /\ api[c].value = ""
            /\ result[c].outcome = "returned"
            /\ result[c].event.text = ""
            /\ Attempts(c) = Fails(c) + 1
            /\ Pauses(c) = Fails(c)

\* C9 witness: the first attempt returned null and the call has returned "".
C9_Witness ==
    /\ Returned(1)
    /\ cfg.max_retries = 3
    /\ Count(1, "ok_none") = 1
    /\ Attempts(1) = 1
    /\ api[1].value = ""

\* C10: over a sequence of calls the configuration never changes, and the
\* session handle, once set, is never replaced or reset: at most one session
\* is ever created.
C10_ConfigAndSessionStable ==
    /\ [](nSessions <= 1)
    /\ [][/\ cfg' = cfg
          /\ client # NoClient => client' = client]_vars

\* C10 witness: a second call is sending over the session the first created.
C10_Witness ==
    /\ nCalls = 2
    /\ pc[1] = "predict"
    /\ client = 1
    /\ Count(1, "client_ok") = 0

\* Call c holds a WAV file it has yet to finish sending.
Sending(c) == pc[c] \in {"ensure", "create", "loop", "predict", "sleep"}

\* C11: concurrent calls use one temporary file each: while a call has yet
\* to finish sending, its own file exists with its own audio, what it sends
\* is that file, no two calls in progress share a path, and a step of a
\* call creates or removes no file but that call's own.
C11_OwnTempFile ==
    /\ [](\A c \in Calls :
            /\ Sending(c) =>
                /\ temp_file[c] # NoPath
                /\ temp_file[c] = temp_path[c]
                /\ temp_file[c] \in DOMAIN files
                /\ files[temp_file[c]] =
                       WavContent(combine_audio_frames(buffer[c]).value)
            /\ pc[c] = "predict" => file_input[c] = temp_path[c]
            /\ \A d \in Calls \ {c} :
                   (temp_path[c] # NoPath /\ pc[c] # "idle"
                    /\ temp_path[d] # NoPath /\ pc[d] # "idle") =>
                       temp_path[c] # temp_path[d])
    /\ [][\A c \in Calls :
            pc'[c] # pc[c] =>
                /\ DOMAIN files \ DOMAIN files' \subseteq {temp_path[c]}
                /\ DOMAIN files' \ DOMAIN files \subseteq {temp_path'[c]}]_vars

\* C11 witness: the second call has created, sent and removed its file
\* while the first call, whose file still exists, is sending.
C11_Witness ==
    /\ pc[1] = "predict"
    /\ temp_path[1] = 1
    /\ pc[2] = "done"
    /\ temp_path[2] = 2
    /\ Count(2, "unlink") = 1
    /\ DOMAIN files = {1}

\* The frames share one sample rate and one channel count.
Consistent(fs) ==
    \A i, j \in DOMAIN fs :
        /\ fs[i].sample_rate = fs[j].sample_rate
        /\ fs[i].num_channels = fs[j].num_channels

\* The k-th byte of the frames' data taken in input order, frame by frame.
ByteAt(fs, k) ==
    LET Before(i) == Len(JoinData(SubSeq(fs, 1, i - 1)))
        i == CHOOSE n \in DOMAIN fs :
                 Before(n) < k /\ k <= Before(n) + Len(fs[n].data)
    IN  fs[i].data[k - Before(i)]

RECURSIVE TotalBytes(_)
\* The sum of the frames' data lengths.
TotalBytes(fs) ==
    IF fs = <<>> THEN 0 ELSE Len(Head(fs).data) + TotalBytes(Tail(fs))

\* C12: for a non-empty list of frames sharing sample rate and channel count
\* the combiner returns the frames' bytes in input order (as many as the
\* inputs hold together), the inputs' sample rate and channel count, and a
\* sample count of totalBytes / (2 x channelCount); a single frame is
\* returned as it is; an empty list raises.
C12_CombinerConcatenates ==
    cmb_pc = "done" =>
        /\ cmb_in = <<>> => cmb_out.raised
        /\ (cmb_in # <<>> /\ Consistent(cmb_in)) =>
            /\ ~cmb_out.raised
            /\ Len(cmb_out.value.data) = TotalBytes(cmb_in)
            /\ \A k \in 1..TotalBytes(cmb_in) :
                   cmb_out.value.data[k] = ByteAt(cmb_in, k)
            /\ cmb_out.value.sample_rate = cmb_in[1].sample_rate
            /\ cmb_out.value.num_channels = cmb_in[1].num_channels
            /\ cmb_out.value.samples_per_channel * 2
                   * cmb_in[1].num_channels = TotalBytes(cmb_in)
            /\ Len(cmb_in) = 1 => cmb_out.value = cmb_in[1]

\* C12 witness: two stereo frames of 4 and 8 bytes were combined into 12
\* bytes, 3 samples per channel.
C12_Witness ==
    /\ cmb_pc = "done"
    /\ Len(cmb_in) = 2
    /\ cmb_in[1].num_channels = 2
    /\ Len(cmb_in[1].data) = 4
    /\ Len(cmb_in[2].data) = 8
    /\ ~cmb_out.raised
    /\ cmb_out.value.samples_per_channel = 3

\* C13: a stream request always ends in the unsupported-operation error
\* (NotImplementedError), whatever the configuration and whatever the
\* adapter is doing, and it changes nothing of the adapter: configuration,
\* session handle, files and calls in progress stay as they were.
C13_StreamUnsupported ==
    /\ [](nStream > 0 => stream_out = "NotImplementedError")
    /\ [][nStream' # nStream =>
            /\ stream_out' = "NotImplementedError"
            /\ client' = client
            /\ sttVars' = sttVars]_vars

\* C13 witness: a stream request failed while a recognition call was waiting
\* for the endpoint with the session open.
C13_Witness ==
    /\ nStream = 1
    /\ stream_out = "NotImplementedError"
    /\ pc[1] = "predict"
    /\ client # NoClient
    /\ cfg.max_retries = 2

\* The language a result of call c has to carry: the one the caller asked
\* for, the configured default when the caller asked for none.
ExpectedLanguage(c) ==
    IF language[c] # NoneVal THEN language[c] ELSE cfg.language

\* C14: every result a recognition call returns, a transcription or the
\* empty result, carries the language the caller requested, or the
\* configured default when none was requested; a result made from the
\* endpoint's reply carries the reply's text as it is, with confidence 1.0.
C14_LanguageTag ==
    \A c \in Calls :
        result[c].outcome = "returned" =>
            /\ result[c].event.type = "FINAL_TRANSCRIPT"
            /\ result[c].event.language = ExpectedLanguage(c)
            /\ api[c].outcome = "returned" =>
                /\ result[c].event.text = api[c].value
                /\ result[c].event.confidence = 1
                /\ Count(c, "ok") > 0 => result[c].event.text = "hello"
            /\ api[c].outcome # "returned" => result[c].event.text = ""

\* C14 witness: a call that asked for "en" under the default "bn" returned
\* the empty result, tagged "en", after its only attempt failed.
C14_Witness ==
    /\ pc[1] = "done"
    /\ language[1] = "en"
    /\ cfg.language = "bn"
    /\ cfg.max_retries = 1
    /\ Fails(1) = 1
    /\ result[1].outcome = "returned"
    /\ result[1].event.text = ""
    /\ result[1].event.language = "en"

\* How many of the first i events of call c are endpoint attempts.
AttemptsUpTo(c, i) ==
    Cardinality({j \in 1..i : trace[c][j] = "attempt"})

\* C15: in the retry loop a pause comes only after a failed attempt that
\* another attempt follows.  Every pause is directly preceded by a failure
\* and, once the call has moved on, directly followed by an attempt; fewer
\* than max_retries attempts precede it (none after the last failure);
\* every attempt but the first is directly preceded by a pause, the first by
\* none; so the pauses number one less than the attempts (as many while the
\* attempt announced by the latest pause is still to begin).
C15_PauseBetweenAttempts ==
    \A c \in Calls :
        /\ \A i \in DOMAIN trace[c] :
            /\ trace[c][i] = "sleep" =>
                /\ i > 1
                /\ trace[c][i - 1] = "fail"
                /\ AttemptsUpTo(c, i) < cfg.max_retries
                /\ i < Len(trace[c]) => trace[c][i + 1] = "attempt"
                /\ i = Len(trace[c]) => pc[c] = "loop"
            /\ trace[c][i] = "attempt" =>
                IF AttemptsUpTo(c, i) = 1
                THEN i > 1 => trace[c][i - 1] # "sleep"
                ELSE i > 1 /\ trace[c][i - 1] = "sleep"
            /\ (trace[c][i] = "fail" /\ i < Len(trace[c])
                /\ AttemptsUpTo(c, i) = cfg.max_retries) =>
                    trace[c][i + 1] # "sleep"
        /\ Attempts(c) > 0 =>
            Pauses(c) = IF trace[c][Len(trace[c])] = "sleep"
                        THEN Attempts(c)
                        ELSE Attempts(c) - 1
        /\ Attempts(c) = 0 => Pauses(c) = 0
        /\ pc[c] = "sleep" => Attempts(c) < cfg.max_retries

\* C15 witness: with max_retries = 3 a call made three failed attempts with
\* two pauses between them and ended without a third pause.
C15_Witness ==
    /\ cfg.max_retries = 3
    /\ pc[1] = "done"
    /\ Attempts(1) = 3
    /\ Fails(1) = 3
    /\ Pauses(1) = 2
    /\ api[1].outcome = "raised"

\* C16: when the engine raises after it has yielded audio chunks, the run
\* has emitted no initialize and no push event: events are emitted only in
\* the step that ends a run whose stream ended without error, so a part of
\* the audio is never delivered.
C16_AllOrNothing ==
    /\ [](engine_err => events = <<>>)
    /\ [](tts_pc = "stream" => events = <<>>)
    /\ [][events' # events =>
            /\ tts_pc = "stream"
            /\ tts_pc' = "done"
            /\ idx = Len(chunks)
            /\ ~engine_err'
            /\ tts_out' = "returned"]_vars

\* C16 witness: the engine raised after two chunks that both carried audio;
\* four bytes were buffered and nothing was emitted.
C16_Witness ==
    /\ tts_pc = "done"
    /\ engine_err
    /\ idx = 2
    /\ chunks[1].type = "audio"
    /\ chunks[2].type = "audio"
    /\ Len(audio_data) = 4
    /\ events = <<>>

\* Creating the session failed in call c.
CreationFailed(c) == Count(c, "client_fail") > 0

\* C17: session creation is outside the retry loop.  A call whose session
\* creation failed has made no endpoint attempt and no pause, its client
\* raised at once, and the call returns the empty result; the failing step
\* leaves the session handle unset; and a call that then reaches
\* _ensure_client with the handle unset attempts the creation again.
C17_CreationOutsideLoop ==
    /\ [](\A c \in Calls :
            CreationFailed(c) =>
                /\ Attempts(c) = 0
                /\ Pauses(c) = 0
                /\ pc[c] \in {"finally", "done"}
                /\ api[c].outcome = "raised"
                /\ result[c].outcome = "returned"
                /\ result[c].event.text = ""
                /\ client = NoClient)
    /\ [][\A c \in Calls :
            /\ trace'[c] = Append(trace[c], "client_fail") =>
                /\ client' = NoClient
                /\ nSessions' = nSessions
                /\ pc'[c] = "finally"
            /\ (pc[c] = "ensure" /\ pc'[c] # "ensure" /\ client = NoClient) =>
                pc'[c] = "create"]_vars

\* C17 witness: the first call wrote its file, failed to create the session
\* and removed the file; the second call, with a file of its own, is
\* creating the session again.
C17_Witness ==
    /\ nCalls = 2
    /\ pc[1] = "create"
    /\ client = NoClient
    /\ nSessions = 0
    /\ nextPath = 2
    /\ DOMAIN files = {2}

====
